---- MODULE Spec2Model ----
(***************************************************************************)
(* Model of the drone discovery / master-election protocol of Warping/DDN. *)
(*                                                                         *)
(*   core/drone_state.py                        DroneState, DroneNetwork   *)
(*   controllers/enhanced_state_controller.py   EnhancedStateController    *)
(*   networking/drone_packet.py                 DronePacket                *)
(*                                                                         *)
(* Time is counted in half seconds: the controller scales every interval   *)
(* by time_step = 0.5, so each interval is a whole number of half seconds. *)
(* time.time() is far larger than every interval while the timers start    *)
(* at 0, so the clock of the model starts at Epoch, past every interval.   *)
(*                                                                         *)
(* Python methods are operators from the object's state (a record) to its  *)
(* state after the call.  A record of known_drones is the DroneState       *)
(* object; the self drone is one object reachable both as self_drone and   *)
(* through known_drones, so the model keeps it once (self_drone) and       *)
(* remembers whether known_drones still holds it (self_in_known); every    *)
(* other object of known_drones lives in peers, under its key.             *)
(*                                                                         *)
(* Not modelled: capabilities, ping_count/response_count (no branch of the *)
(* protocol reads them) and the wall-clock stamps a packet carries.        *)
(***************************************************************************)
EXTENDS Integers, Sequences, FiniteSets, TLC

VARIABLES ctl, inbox, now, ticked, ev

vars == <<ctl, inbox, now, ticked, ev>>

(***************************************************************************)
(* Bounds of the model                                                     *)
(***************************************************************************)
\* first clock value (time.time() at start-up, in half seconds)
Epoch == 100
\* the clock stops advancing after Epoch + Horizon
Horizon == 70
\* the clock advances by TimeStep between two passes of a node's loop
TimeStep == 10
\* most packets the single node receives in one run
MaxPackets == 3
\* longest inbox
MaxInbox == 16

(***************************************************************************)
(* Program constants, in half seconds                                      *)
(***************************************************************************)
discovery_interval == 5
heartbeat_interval == 10
network_sync_interval == 15
master_election_interval == 8
master_timeout == 25
election_timeout == 10
max_discovery_attempts == 10
\* control_loop: "if current_time - self.last_cleanup_time > 15.0"
cleanup_interval == 30
\* default of is_online / get_online_drones: timeout = 30.0
online_timeout == 60

(***************************************************************************)
(* Values                                                                  *)
(***************************************************************************)
\* Python None for an id (Python's truth test treats None and 0 alike)
None == 0
\* params.get(key, None) of a key the packet lacks
Absent == -1
\* the reserved position (0.0, 0.0, 0.0)
Origin == 0
\* the position DroneState.__init__ draws at random
RandPos == 9
\* a new_id that cannot be a dictionary key (a JSON list)
Unhashable == -2

DroneStatus == {"offline", "seeking", "connected", "master", "slave", "lost"}

Max(a, b) == IF a >= b THEN a ELSE b
Min(a, b) == IF a <= b THEN a ELSE b

(***************************************************************************)
(* DroneState                                                              *)
(***************************************************************************)
DroneState(drone_id, t) ==
    [drone_id |-> drone_id, status |-> "seeking", last_seen |-> t,
     discovery_time |-> t, position |-> RandPos, battery_level |-> 100,
     is_self |-> FALSE, signal_strength |-> 0]

update_last_seen(d, t) == [d EXCEPT !.last_seen = t]

is_online(d, timeout, t) == (t - d.last_seen) < timeout

\* an update that takes every position it is given
update_position_any(d, pos, t) ==
    [d EXCEPT !.position = pos, !.last_seen = t]

update_position(d, pos, t) ==
    IF pos = Origin THEN d
    ELSE [d EXCEPT !.position = pos, !.last_seen = t]

update_battery(d, level, t) ==
    [d EXCEPT !.battery_level = Max(0, Min(100, level)), !.last_seen = t]

(***************************************************************************)
(* DroneNetwork                                                            *)
(***************************************************************************)
DroneNetwork(self_drone_id, t) ==
    [self_drone |-> [DroneState(self_drone_id, t) EXCEPT !.is_self = TRUE],
     self_in_known |-> TRUE,
     peers |-> [x \in {} |-> x],
     master_drone_id |-> None,
     network_established |-> FALSE,
     id_conflicts |-> << >>]

get_self_id(dn) == dn.self_drone.drone_id

\* the keys of known_drones
KnownIds(dn) ==
    DOMAIN dn.peers \cup (IF dn.self_in_known THEN {get_self_id(dn)} ELSE {})

\* does known_drones[k] hold the self_drone object
HoldsSelf(dn, k) == dn.self_in_known /\ k = get_self_id(dn)

\* known_drones[k], for k in KnownIds(dn)
known_drones(dn, k) == IF HoldsSelf(dn, k) THEN dn.self_drone ELSE dn.peers[k]

\* known_drones.get(k): the object under k, or no object
get_drone(dn, k) == IF k \in KnownIds(dn) THEN {known_drones(dn, k)} ELSE {}

\* known_drones[k] = d for an object d that is not self_drone
PutPeer(dn, k, d) ==
    [dn EXCEPT !.peers = [x \in (DOMAIN dn.peers) \cup {k} |->
                             IF x = k THEN d ELSE dn.peers[x]],
               !.self_in_known = dn.self_in_known /\ k # get_self_id(dn)]

\* del known_drones[k] for a key that holds a peer object
DelPeer(dn, k) ==
    [dn EXCEPT !.peers = [x \in (DOMAIN dn.peers) \ {k} |-> dn.peers[x]]]

\* the object under key k, for k in KnownIds(dn), now has the fields of d
Mutate(dn, k, d) ==
    IF HoldsSelf(dn, k) THEN [dn EXCEPT !.self_drone = d]
    ELSE [dn EXCEPT !.peers[k] = d]

set_self_status(dn, status, t) ==
    [dn EXCEPT !.self_drone.status = status, !.self_drone.last_seen = t]

\* the field updates without the "is not None" tests
ApplyFieldsUnguarded(d, status, position, battery_level, signal_strength, t) ==
    [update_battery(update_position([d EXCEPT !.status = status], position, t),
                    battery_level, t)
        EXCEPT !.signal_strength = signal_strength]

\* the field updates add_or_update_drone applies to an object
ApplyFields(d, status, position, battery_level, signal_strength, t) ==
    LET d1 == [d EXCEPT !.status = status]
        d2 == IF position # Absent THEN update_position(d1, position, t) ELSE d1
        d3 == IF battery_level # Absent THEN update_battery(d2, battery_level, t)
              ELSE d2
    IN  IF signal_strength # Absent
        THEN [d3 EXCEPT !.signal_strength = signal_strength] ELSE d3

add_or_update_drone(dn, drone_id, status, position, battery_level, signal_strength, t) ==
    IF drone_id \in KnownIds(dn)
    THEN LET Upd(d) == update_last_seen(
                 ApplyFields(d, status, position, battery_level,
                             signal_strength, t), t)
         IN  Mutate(dn, drone_id, Upd(known_drones(dn, drone_id)))
    ELSE PutPeer(dn, drone_id,
                 ApplyFields(DroneState(drone_id, t), status, position,
                             battery_level, signal_strength, t))

remove_drone(dn, drone_id) ==
    IF drone_id \in KnownIds(dn) /\ drone_id # get_self_id(dn)
    THEN DelPeer(dn, drone_id) ELSE dn

get_online_ids(dn, timeout, t) ==
    {k \in KnownIds(dn) : is_online(known_drones(dn, k), timeout, t)}

get_online_drone_count(dn, timeout, t) == Cardinality(get_online_ids(dn, timeout, t))

cleanup_offline_drones(dn, timeout, t) ==
    LET offline_drones == {k \in KnownIds(dn) :
                              /\ k # get_self_id(dn)
                              /\ (t - known_drones(dn, k).last_seen) > timeout}
    IN  [dn EXCEPT !.peers = [x \in (DOMAIN dn.peers) \ offline_drones |->
                                 dn.peers[x]]]

detect_id_conflict(dn, reported_id, reporter_id) ==
    reported_id = get_self_id(dn) /\ reporter_id # get_self_id(dn)

\* del known_drones[old_id]; self_drone.drone_id = new_id;
\* known_drones[new_id] = self_drone; id_conflicts.append((old_id, new_id))
RekeySelf(dn, new_id) ==
    LET old_id == get_self_id(dn)
        rest == IF dn.self_in_known THEN DOMAIN dn.peers
                ELSE (DOMAIN dn.peers) \ {old_id}
    IN  [dn EXCEPT !.peers = [x \in rest \ {new_id} |-> dn.peers[x]],
                   !.self_drone.drone_id = new_id,
                   !.self_in_known = TRUE,
                   !.id_conflicts = Append(dn.id_conflicts, <<old_id, new_id>>)]

\* draw: the first of the 100 random ids that is no key of known_drones, or
\* None when all 100 collide; fallback: the id derived from the timestamp
resolve_id_conflict(dn, draw, fallback) ==
    IF draw # None /\ draw \notin KnownIds(dn) THEN RekeySelf(dn, draw)
    ELSE RekeySelf(dn, fallback)

\* min(online_drones, key=drone_id)
MinId(S) == CHOOSE k \in S : \A j \in S : k <= j

\* status of every online object after an election with this winner
SetRoles(dn, online, winner) ==
    [dn EXCEPT
        !.peers = [x \in DOMAIN dn.peers |->
                      IF x \in online /\ ~HoldsSelf(dn, x)
                      THEN [dn.peers[x] EXCEPT !.status =
                               IF x = winner THEN "master" ELSE "slave"]
                      ELSE dn.peers[x]],
        !.self_drone.status =
            IF dn.self_in_known /\ get_self_id(dn) \in online
            THEN (IF get_self_id(dn) = winner THEN "master" ELSE "slave")
            ELSE dn.self_drone.status]

elect_master(dn, t) ==
    LET online == get_online_ids(dn, online_timeout, t)
    IN  IF online = {} THEN dn
        ELSE SetRoles([dn EXCEPT !.master_drone_id = MinId(online)],
                      online, MinId(online))

update_network_status(dn, t) ==
    LET established == get_online_drone_count(dn, online_timeout, t) > 1
        dn1 == [dn EXCEPT !.network_established = established]
    IN  IF /\ dn.master_drone_id # None
           /\ \/ dn.master_drone_id \notin KnownIds(dn)
              \/ ~is_online(known_drones(dn, dn.master_drone_id),
                            online_timeout, t)
        THEN LET dn2 == [dn1 EXCEPT !.master_drone_id = None]
             IN  IF established THEN elect_master(dn2, t) ELSE dn2
        ELSE dn1

(***************************************************************************)
(* DronePacket                                                             *)
(***************************************************************************)
\* params of a packet; a key the packet lacks is Absent (None for an id)
NoParams ==
    [position |-> Absent, battery_level |-> Absent, signal_strength |-> Absent,
     status |-> "", known_drones |-> {}, master_id |-> None,
     old_id |-> None, new_id |-> None, candidate_id |-> None]

command(drone_id, destination_id, current_state, action, params) ==
    [drone_id |-> drone_id, destination_id |-> destination_id,
     current_state |-> current_state, action |-> action, params |-> params]

ack(drone_id, destination_id, current_state, position, battery_level) ==
    command(drone_id, destination_id, current_state, "ACK",
            [NoParams EXCEPT !.position = position,
                             !.battery_level = battery_level])

discovery_announce(drone_id, current_state, position, battery_level) ==
    command(drone_id, -1, current_state, "DISCOVERY_ANNOUNCE",
            [NoParams EXCEPT !.position = position,
                             !.battery_level = battery_level])

discovery_response(drone_id, destination_id, current_state, position, battery_level) ==
    command(drone_id, destination_id, current_state, "DISCOVERY_RESPONSE",
            [NoParams EXCEPT !.position = position,
                             !.battery_level = battery_level])

heartbeat(drone_id, current_state, position, battery_level) ==
    command(drone_id, -1, current_state, "HEARTBEAT",
            [NoParams EXCEPT !.position = position,
                             !.battery_level = battery_level])

network_status(drone_id, current_state, known, master_id) ==
    command(drone_id, -1, current_state, "NETWORK_STATUS",
            [NoParams EXCEPT !.known_drones = known, !.master_id = master_id])

id_conflict_resolution(drone_id, destination_id, current_state, old_id, new_id) ==
    command(drone_id, destination_id, current_state, "ID_CONFLICT_RESOLUTION",
            [NoParams EXCEPT !.old_id = old_id, !.new_id = new_id])

elect_master_packet(drone_id, current_state, candidate_id) ==
    command(drone_id, -1, current_state, "ELECT_MASTER",
            [NoParams EXCEPT !.candidate_id = candidate_id])

(***************************************************************************)
(* EnhancedStateController                                                 *)
(***************************************************************************)
\* outbox: the packets handed to bh.send_broadcast during the current step
EnhancedStateController(drone_id, t) ==
    [drone_network |-> DroneNetwork(drone_id, t),
     last_discovery_time |-> 0,
     last_heartbeat_time |-> 0,
     last_network_sync_time |-> 0,
     last_cleanup_time |-> 0,
     last_master_check_time |-> 0,
     last_master_heartbeat_time |-> 0,
     discovery_attempts |-> 0,
     election_in_progress |-> FALSE,
     election_start_time |-> 0,
     election_votes |-> [x \in {} |-> x],
     has_voted |-> FALSE,
     outbox |-> << >>]

send_broadcast(c, packet) == [c EXCEPT !.outbox = Append(c.outbox, packet)]

\* tuple comparison (battery, -drone_id, uptime) > (battery, -drone_id, uptime)
ScoreGreater(a, b) ==
    \/ a[1] > b[1]
    \/ a[1] = b[1] /\ a[2] > b[2]
    \/ a[1] = b[1] /\ a[2] = b[2] /\ a[3] > b[3]

Score(d, t) == <<d.battery_level, 0 - d.drone_id, t - d.discovery_time>>

select_master_candidate(dn, t) ==
    LET online == get_online_ids(dn, online_timeout, t)
        sc(k) == Score(known_drones(dn, k), t)
        best == CHOOSE k \in online :
                    \A j \in online : j = k \/ ~ScoreGreater(sc(j), sc(k))
        best_candidate == IF ScoreGreater(Score(dn.self_drone, t), sc(best))
                          THEN get_self_id(dn) ELSE best
    \* "best_candidate if best_candidate else self id": id 0 is falsy
    IN  IF online = {} THEN get_self_id(dn)
        ELSE IF best_candidate # None THEN best_candidate
        ELSE get_self_id(dn)

participate_in_election(c, t) ==
    IF c.has_voted THEN c
    ELSE LET dn == c.drone_network
             candidate_id == select_master_candidate(dn, t)
             c1 == send_broadcast(c, elect_master_packet(
                       get_self_id(dn), dn.self_drone.status, candidate_id))
         IN  [c1 EXCEPT
                 !.has_voted = TRUE,
                 !.election_votes =
                     [x \in (DOMAIN c.election_votes) \cup {get_self_id(dn)} |->
                         IF x = get_self_id(dn) THEN candidate_id
                         ELSE c.election_votes[x]]]

\* an election that is started without recording when
initiate_master_election_unstamped(c, t) ==
    IF c.election_in_progress THEN c
    ELSE participate_in_election(
             [c EXCEPT !.election_in_progress = TRUE,
                       !.election_votes = [x \in {} |-> x],
                       !.has_voted = FALSE], t)

initiate_master_election(c, t) ==
    IF c.election_in_progress THEN c
    ELSE participate_in_election(
             [c EXCEPT !.election_in_progress = TRUE,
                       !.election_start_time = t,
                       !.election_votes = [x \in {} |-> x],
                       !.has_voted = FALSE], t)

share_network_status(c, t) ==
    LET dn == c.drone_network
    IN  send_broadcast(c, network_status(
            get_self_id(dn), dn.self_drone.status,
            get_online_ids(dn, online_timeout, t) \cup {get_self_id(dn)},
            dn.master_drone_id))

\* a tally that breaks ties by the highest candidate id
WinnerHighestId(votes, self_id) ==
    LET cands == {votes[v] : v \in DOMAIN votes}
        count(x) == Cardinality({v \in DOMAIN votes : votes[v] = x})
    IN  IF cands = {} THEN self_id
        ELSE CHOOSE x \in cands : \A y \in cands :
                 \/ count(x) > count(y)
                 \/ count(x) = count(y) /\ x >= y

\* min(vote_counts.keys(), key=lambda x: (-vote_counts[x], x))
Winner(votes, self_id) ==
    LET cands == {votes[v] : v \in DOMAIN votes}
        count(x) == Cardinality({v \in DOMAIN votes : votes[v] = x})
    IN  IF cands = {} THEN self_id
        ELSE CHOOSE x \in cands : \A y \in cands :
                 \/ count(x) > count(y)
                 \/ count(x) = count(y) /\ x <= y

\* a finalization that leaves the roles of the records as they were
finalize_election_no_roles(c, t) ==
    IF ~c.election_in_progress THEN c
    ELSE LET dn == c.drone_network
             winner == Winner(c.election_votes, get_self_id(dn))
         IN  share_network_status(
                 [c EXCEPT !.drone_network.master_drone_id = winner,
                           !.election_in_progress = FALSE,
                           !.election_votes = [x \in {} |-> x],
                           !.has_voted = FALSE,
                           !.last_master_heartbeat_time = t], t)

finalize_election(c, t) ==
    IF ~c.election_in_progress THEN c
    ELSE LET dn == c.drone_network
             winner == Winner(c.election_votes, get_self_id(dn))
             dn1 == SetRoles([dn EXCEPT !.master_drone_id = winner],
                             get_online_ids(dn, online_timeout, t), winner)
             dn2 == [dn1 EXCEPT !.self_drone.status =
                        IF winner = get_self_id(dn) THEN "master" ELSE "slave"]
         IN  share_network_status(
                 [c EXCEPT !.drone_network = dn2,
                           !.election_in_progress = FALSE,
                           !.election_votes = [x \in {} |-> x],
                           !.has_voted = FALSE,
                           !.last_master_heartbeat_time = t], t)

\* a poll that does not wait for election_timeout
process_election_results_early(c, t) ==
    IF ~c.election_in_progress THEN c ELSE finalize_election(c, t)

process_election_results(c, t) ==
    IF ~c.election_in_progress THEN c
    ELSE IF t - c.election_start_time > election_timeout
         THEN finalize_election(c, t) ELSE c

check_master_status(c, t) ==
    IF t - c.last_master_check_time < master_election_interval THEN c
    ELSE
    LET c1 == [c EXCEPT !.last_master_check_time = t]
        dn == c.drone_network
        m == dn.master_drone_id
        master_drone == get_drone(dn, m)
        gone == \A d \in master_drone : ~is_online(d, master_timeout, t)
        master_offline ==
            /\ \/ master_drone = {}
               \/ gone
               \/ t - c.last_master_heartbeat_time > master_timeout
            /\ dn.self_drone.status # "master"
        dn1 == [dn EXCEPT !.master_drone_id = None]
        dn2 == IF master_drone # {} /\ gone THEN remove_drone(dn1, m) ELSE dn1
        c2 == [c1 EXCEPT !.drone_network = dn2]
    IN  IF /\ m = None
           /\ get_online_drone_count(dn, online_timeout, t) > 1
           /\ ~c.election_in_progress
        THEN initiate_master_election(c1, t)
        ELSE IF m # None /\ master_offline
        THEN IF /\ get_online_drone_count(dn2, online_timeout, t) >= 1
                /\ ~c.election_in_progress
             THEN initiate_master_election(c2, t) ELSE c2
        ELSE c1

update_state_based_on_network(c, t) ==
    LET dn == c.drone_network
        online_count == get_online_drone_count(dn, online_timeout, t)
        current_status == dn.self_drone.status
    IN  IF online_count = 1
        THEN IF current_status # "seeking"
             THEN [c EXCEPT
                     !.drone_network =
                         [set_self_status(dn, "seeking", t)
                              EXCEPT !.master_drone_id = None],
                     !.discovery_attempts = 0]
             ELSE c
        ELSE IF online_count > 1
        THEN LET c1 == IF current_status = "seeking"
                       THEN [c EXCEPT !.drone_network =
                                set_self_status(dn, "connected", t)]
                       ELSE c
                 c2 == check_master_status(c1, t)
                 c3 == process_election_results(c2, t)
             IN  [c3 EXCEPT !.drone_network =
                     update_network_status(c3.drone_network, t)]
        ELSE c

(***************************************************************************)
(* Packet handlers                                                         *)
(***************************************************************************)
handle_ping(c, packet) ==
    LET dn == c.drone_network
    IN  send_broadcast(c, ack(get_self_id(dn), packet.drone_id,
                              dn.self_drone.status, dn.self_drone.position,
                              dn.self_drone.battery_level))

handle_discovery_announce(c, packet) ==
    LET dn == c.drone_network
    IN  send_broadcast(c, discovery_response(
            get_self_id(dn), packet.drone_id, dn.self_drone.status,
            dn.self_drone.position, dn.self_drone.battery_level))

\* only records the capabilities, which the model leaves out
handle_discovery_response(c, packet) == c

handle_heartbeat(c, packet, t) ==
    LET sender_id == packet.drone_id
        dn == c.drone_network
        c1 == IF sender_id = dn.master_drone_id
              THEN [c EXCEPT !.last_master_heartbeat_time = t] ELSE c
        Seen(d) == update_last_seen(d, t)
        c2 == IF sender_id \in KnownIds(dn)
              THEN [c1 EXCEPT !.drone_network =
                        Mutate(dn, sender_id,
                               Seen(known_drones(dn, sender_id)))]
              ELSE c1
    IN  IF /\ packet.params.status = "master"
           /\ dn.master_drone_id # None
           /\ dn.master_drone_id # sender_id
           /\ ~c.election_in_progress
        THEN initiate_master_election(
                 [c2 EXCEPT !.drone_network.master_drone_id = None], t)
        ELSE c2

RECURSIVE MergeKnown(_, _, _)
\* the loop of handle_network_status over the announced ids
MergeKnown(dn, ids, t) ==
    IF ids = {} THEN dn
    ELSE LET k == CHOOSE x \in ids : TRUE
             Conn(d) == [d EXCEPT !.status = "connected", !.last_seen = t]
             dn1 == IF k = get_self_id(dn) THEN dn
                    ELSE IF k \notin KnownIds(dn)
                    THEN add_or_update_drone(dn, k, "connected", Absent,
                                             Absent, Absent, t)
                    ELSE Mutate(dn, k, Conn(known_drones(dn, k)))
         IN  MergeKnown(dn1, ids \ {k}, t)

handle_network_status(c, packet, t) ==
    LET master_id == packet.params.master_id
        dn1 == MergeKnown(c.drone_network, packet.params.known_drones, t)
    IN  IF master_id # None /\ master_id # dn1.master_drone_id
        THEN [c EXCEPT !.drone_network =
                           [dn1 EXCEPT !.master_drone_id = master_id],
                       !.last_master_heartbeat_time = t]
        ELSE [c EXCEPT !.drone_network = dn1]

\* known_drones[new_id] = old_drone raises TypeError for an unhashable
\* new_id, after old_id has been deleted and the object renamed
RekeyRaises(c, packet) ==
    /\ packet.action = "ID_CONFLICT_RESOLUTION"
    /\ packet.params.old_id \in KnownIds(c.drone_network)
    /\ packet.params.new_id = Unhashable

\* a handler that moves the object to the new key and leaves its drone_id
handle_id_conflict_resolution_moved(c, packet) ==
    LET old_id == packet.params.old_id
        new_id == packet.params.new_id
        dn == c.drone_network
    IN  IF old_id \notin KnownIds(dn) THEN c
        ELSE IF HoldsSelf(dn, old_id)
        THEN [c EXCEPT !.drone_network =
                 PutPeer([dn EXCEPT !.self_in_known = FALSE], new_id,
                         dn.self_drone)]
        ELSE IF new_id = Unhashable
        THEN [c EXCEPT !.drone_network = DelPeer(dn, old_id)]
        ELSE [c EXCEPT !.drone_network =
                 PutPeer(DelPeer(dn, old_id), new_id, dn.peers[old_id])]

handle_id_conflict_resolution(c, packet) ==
    LET old_id == packet.params.old_id
        new_id == packet.params.new_id
        dn == c.drone_network
    IN  IF old_id \notin KnownIds(dn) THEN c
        ELSE IF HoldsSelf(dn, old_id)
        THEN [c EXCEPT !.drone_network =
                 [dn EXCEPT !.peers = [x \in (DOMAIN dn.peers) \ {new_id} |->
                                          dn.peers[x]],
                            !.self_drone.drone_id = new_id,
                            !.self_in_known = new_id # Unhashable]]
        ELSE IF new_id = Unhashable
        THEN [c EXCEPT !.drone_network = DelPeer(dn, old_id)]
        ELSE [c EXCEPT !.drone_network =
                 PutPeer(DelPeer(dn, old_id), new_id,
                         [dn.peers[old_id] EXCEPT !.drone_id = new_id])]

\* a handler that takes the vote and answers it whether or not an election
\* is in progress
handle_master_election_unsolicited(c, packet, t) ==
    LET sender_id == packet.drone_id
        candidate_id == IF packet.params.candidate_id = None THEN sender_id
                        ELSE packet.params.candidate_id
    IN  participate_in_election(
            [c EXCEPT !.election_votes =
                [x \in (DOMAIN c.election_votes) \cup {sender_id} |->
                    IF x = sender_id THEN candidate_id
                    ELSE c.election_votes[x]]], t)

handle_master_election(c, packet, t) ==
    LET sender_id == packet.drone_id
        candidate_id == IF packet.params.candidate_id = None THEN sender_id
                        ELSE packet.params.candidate_id
    IN  IF ~c.election_in_progress THEN c
        ELSE participate_in_election(
                 [c EXCEPT !.election_votes =
                     [x \in (DOMAIN c.election_votes) \cup {sender_id} |->
                         IF x = sender_id THEN candidate_id
                         ELSE c.election_votes[x]]], t)

\* only increments response_count, which the model leaves out
handle_ack(c, packet) == c

Dispatch(c, packet, t) ==
    CASE packet.action = "PING" -> handle_ping(c, packet)
      [] packet.action = "DISCOVERY_ANNOUNCE" -> handle_discovery_announce(c, packet)
      [] packet.action = "DISCOVERY_RESPONSE" -> handle_discovery_response(c, packet)
      [] packet.action = "HEARTBEAT" -> handle_heartbeat(c, packet, t)
      [] packet.action = "NETWORK_STATUS" -> handle_network_status(c, packet, t)
      [] packet.action = "ID_CONFLICT_RESOLUTION" ->
             handle_id_conflict_resolution(c, packet)
      [] packet.action = "ELECT_MASTER" -> handle_master_election(c, packet, t)
      [] packet.action = "ACK" -> handle_ack(c, packet)
      [] OTHER -> c

\* a merge that writes the packet's state into the node's own record as well
MergeSenderAndSelf(dn, packet, t) ==
    [add_or_update_drone(dn, packet.drone_id, packet.current_state,
                         Absent, Absent, Absent, t)
        EXCEPT !.self_drone.status = packet.current_state]

\* the sender's object after the packet's state has been merged into the view
MergeSender(dn, packet, t) ==
    LET sender_id == packet.drone_id
        params == packet.params
        St(d) == [d EXCEPT !.status = packet.current_state, !.last_seen = t]
    IN  IF /\ params.position # Absent
           /\ params.battery_level # Absent
           /\ params.signal_strength # Absent
        THEN add_or_update_drone(dn, sender_id, packet.current_state,
                                 params.position, params.battery_level,
                                 params.signal_strength, t)
        ELSE IF sender_id \in KnownIds(dn)
        THEN Mutate(dn, sender_id, St(known_drones(dn, sender_id)))
        ELSE add_or_update_drone(dn, sender_id, packet.current_state,
                                 Absent, Absent, Absent, t)

\* a handler that does not look for its own id in the sender
handle_received_packet_own(c, packet, t, draw, fallback) ==
    LET sender_id == packet.drone_id
        dn == c.drone_network
    IN  IF detect_id_conflict(dn, sender_id, sender_id)
        THEN LET dn1 == resolve_id_conflict(dn, draw, fallback)
             IN  send_broadcast(
                     [c EXCEPT !.drone_network = dn1],
                     id_conflict_resolution(get_self_id(dn1), -1,
                         dn1.self_drone.status, sender_id, get_self_id(dn1)))
        \* DroneStatus(packet.current_state) raises ValueError, which
        \* process_incoming_packets catches: the packet is dropped
        ELSE IF packet.current_state \notin DroneStatus THEN c
        ELSE LET c1 == [c EXCEPT !.drone_network = MergeSender(dn, packet, t)]
                 c2 == Dispatch(c1, packet, t)
             \* an exception in the handler skips update_network_status;
             \* process_incoming_packets catches it and goes on
             IN  IF RekeyRaises(c1, packet) THEN c2
                 ELSE [c2 EXCEPT !.drone_network =
                          update_network_status(c2.drone_network, t)]

\* draw, fallback: the outcome of resolve_id_conflict's random draws
handle_received_packet(c, packet, t, draw, fallback) ==
    LET sender_id == packet.drone_id
        dn == c.drone_network
    IN  IF sender_id = get_self_id(dn) THEN c
        ELSE IF detect_id_conflict(dn, sender_id, sender_id)
        THEN LET dn1 == resolve_id_conflict(dn, draw, fallback)
             IN  send_broadcast(
                     [c EXCEPT !.drone_network = dn1],
                     id_conflict_resolution(get_self_id(dn1), -1,
                         dn1.self_drone.status, sender_id, get_self_id(dn1)))
        \* DroneStatus(packet.current_state) raises ValueError, which
        \* process_incoming_packets catches: the packet is dropped
        ELSE IF packet.current_state \notin DroneStatus THEN c
        ELSE LET c1 == [c EXCEPT !.drone_network = MergeSender(dn, packet, t)]
                 c2 == Dispatch(c1, packet, t)
             \* an exception in the handler skips update_network_status;
             \* process_incoming_packets catches it and goes on
             IN  IF RekeyRaises(c1, packet) THEN c2
                 ELSE [c2 EXCEPT !.drone_network =
                          update_network_status(c2.drone_network, t)]

(***************************************************************************)
(* control_loop: the timers of one pass, after the inbox has been drained  *)
(***************************************************************************)
send_discovery_announcement(c) ==
    LET dn == c.drone_network
        c1 == send_broadcast(c, discovery_announce(
                  get_self_id(dn), dn.self_drone.status,
                  dn.self_drone.position, dn.self_drone.battery_level))
    IN  [c1 EXCEPT !.discovery_attempts = c.discovery_attempts + 1]

send_heartbeat(c) ==
    LET dn == c.drone_network
    IN  send_broadcast(c, heartbeat(get_self_id(dn), dn.self_drone.status,
                                    dn.self_drone.position,
                                    dn.self_drone.battery_level))

send_network_status(c) ==
    LET dn == c.drone_network
    IN  send_broadcast(c, network_status(get_self_id(dn), dn.self_drone.status,
                                         KnownIds(dn), dn.master_drone_id))

\* the cleanup branch of control_loop
cleanup_timer(c, t) ==
    IF t - c.last_cleanup_time > cleanup_interval
    THEN LET dn == c.drone_network
             dn1 == cleanup_offline_drones(dn, master_timeout, t)
             dn2 == IF /\ Cardinality(KnownIds(dn1)) < Cardinality(KnownIds(dn))
                       /\ dn1.master_drone_id # None
                       /\ dn1.master_drone_id \notin KnownIds(dn1)
                    THEN [dn1 EXCEPT !.master_drone_id = None] ELSE dn1
         IN  [c EXCEPT !.drone_network = dn2, !.last_cleanup_time = t]
    ELSE c

\* a loop that announces as long as the node is SEEKING
control_loop_uncapped(c, t) ==
    LET st == c.drone_network.self_drone.status
        c1 == IF /\ st = "seeking"
                 /\ t - c.last_discovery_time > discovery_interval
              THEN [send_discovery_announcement(c)
                        EXCEPT !.last_discovery_time = t]
              ELSE c
        c2 == IF /\ st \in {"connected", "master", "slave"}
                 /\ t - c.last_heartbeat_time > heartbeat_interval
              THEN [send_heartbeat(c1) EXCEPT !.last_heartbeat_time = t]
              ELSE c1
        c3 == IF /\ c.drone_network.network_established
                 /\ t - c.last_network_sync_time > network_sync_interval
              THEN [send_network_status(c2) EXCEPT !.last_network_sync_time = t]
              ELSE c2
    IN  update_state_based_on_network(cleanup_timer(c3, t), t)

control_loop(c, t) ==
    LET st == c.drone_network.self_drone.status
        c1 == IF /\ st = "seeking"
                 /\ t - c.last_discovery_time > discovery_interval
                 /\ c.discovery_attempts < max_discovery_attempts
              THEN [send_discovery_announcement(c)
                        EXCEPT !.last_discovery_time = t]
              ELSE c
        c2 == IF /\ st \in {"connected", "master", "slave"}
                 /\ t - c.last_heartbeat_time > heartbeat_interval
              THEN [send_heartbeat(c1) EXCEPT !.last_heartbeat_time = t]
              ELSE c1
        c3 == IF /\ c.drone_network.network_established
                 /\ t - c.last_network_sync_time > network_sync_interval
              THEN [send_network_status(c2) EXCEPT !.last_network_sync_time = t]
              ELSE c2
    IN  update_state_based_on_network(cleanup_timer(c3, t), t)

(***************************************************************************)
(* Nodes                                                                   *)
(***************************************************************************)
\* the drone ids the nodes are started with
Procs == {5, 6, 7}
\* the node the single-node specifications follow
Self0 == MinId(Procs)
\* ids that packets and random draws may carry
Ids == {5, 6, 7, 8}
NoPacket == command(None, -1, "", "", NoParams)

\* the step starts with nothing sent yet
Fresh(c) == [c EXCEPT !.outbox = << >>]

\* n: the packets received so far
Event(op, who, packet, n) == [op |-> op, who |-> who, packet |-> packet, n |-> n]

Init ==
    /\ ctl = [p \in Procs |-> EnhancedStateController(p, Epoch)]
    /\ inbox = [p \in Procs |-> << >>]
    /\ now = Epoch
    /\ ticked = {}
    /\ ev = Event("init", Self0, NoPacket, 0)

(***************************************************************************)
(* Spec: one node; each pass of its loop drains the packets that arrived,   *)
(* of any kind, runs the timers and sleeps                                 *)
(***************************************************************************)
Merged(packet) ==
    [packet EXCEPT !.params.position = 1, !.params.battery_level = 95,
                   !.params.signal_strength = 1]

EnvPackets ==
    {heartbeat(6, "connected", 1, 80),
     heartbeat(7, "master", 1, 80),
     [heartbeat(7, "master", 1, 80) EXCEPT !.params.status = "master"],
     network_status(6, "connected", {}, 6),
     network_status(6, "slave", {5, 6, 7}, 8),
     elect_master_packet(6, "connected", 6),
     elect_master_packet(7, "connected", 5),
     id_conflict_resolution(6, -1, "connected", 6, 5),
     id_conflict_resolution(6, -1, "connected", 5, 8),
     id_conflict_resolution(6, -1, "connected", 6, Unhashable),
     command(6, 7, "connected", "PING", NoParams),
     discovery_announce(7, "seeking", 1, 80),
     Merged(discovery_response(7, 5, "connected", 1, 80)),
     ack(7, 5, "offline", Origin, 80),
     heartbeat(6, "bogus", 1, 80),
     heartbeat(5, "connected", 1, 80)}

\* the outcomes resolve_id_conflict's draws can have for this packet
Draws(c, packet) ==
    IF detect_id_conflict(c.drone_network, packet.drone_id, packet.drone_id)
    THEN {None} \cup Ids ELSE {None}

\* process_incoming_packets: one packet of the drain
Deliver ==
    /\ ev.op # "tick"
    /\ ev.n < MaxPackets
    /\ \E packet \in EnvPackets :
        \E draw \in Draws(ctl[Self0], packet), fallback \in Ids :
            /\ ctl' = [ctl EXCEPT ![Self0] = handle_received_packet(
                           Fresh(ctl[Self0]), packet, now, draw, fallback)]
            /\ ev' = Event("recv", Self0, packet, ev.n + 1)
            /\ UNCHANGED <<inbox, now, ticked>>

\* control_loop: the rest of the pass
Tick ==
    /\ ev.op # "tick"
    /\ ctl' = [ctl EXCEPT ![Self0] = control_loop(Fresh(ctl[Self0]), now)]
    /\ ev' = Event("tick", Self0, NoPacket, ev.n)
    /\ UNCHANGED <<inbox, now, ticked>>

\* time.sleep, and whatever else delays the next pass
Advance ==
    /\ ev.op = "tick"
    /\ now + TimeStep <= Epoch + Horizon
    /\ now' = now + TimeStep
    /\ ev' = Event("time", Self0, NoPacket, ev.n)
    /\ UNCHANGED <<ctl, inbox, ticked>>

Next == Deliver \/ Tick \/ Advance

Spec == Init /\ [][Next]_vars

(***************************************************************************)
(* SpecNet: the nodes of Procs run the program and hear each other; the    *)
(* transport loses nothing and no node stops.  Every node makes one pass   *)
(* of its loop per clock value, in any order.                              *)
(***************************************************************************)
\* the battery levels of the three-node scenario: 90, 80, 70
ScenarioLevel(p) == 140 - 10 * p

\* the levels the nodes run with: the one DroneState starts with, or the
\* scenario's, set by the host of the controller before the loop starts
Levels == {[p \in Procs |-> 100], [p \in Procs |-> ScenarioLevel(p)]}

Started(p, level) ==
    LET c == EnhancedStateController(p, Epoch)
    IN  [c EXCEPT !.drone_network.self_drone =
                      update_battery(c.drone_network.self_drone, level, Epoch)]

InitNet ==
    /\ \E level \in Levels : ctl = [p \in Procs |-> Started(p, level[p])]
    /\ inbox = [p \in Procs |-> << >>]
    /\ now = Epoch
    /\ ticked = {}
    /\ ev = Event("init", Self0, NoPacket, 0)

\* the clock advances by NetStep between two rounds of passes
NetStep == 5
\* the clock of the network stops advancing after Epoch + NetHorizon
NetHorizon == 80

RECURSIVE Drain(_, _, _)
\* process_incoming_packets: handle every pending packet, oldest first
Drain(c, queue, t) ==
    IF queue = << >> THEN c
    ELSE Drain(handle_received_packet(c, Head(queue), t, None, 8),
               Tail(queue), t)

\* one pass of control_loop
Pass(c, queue, t) == control_loop(Drain(Fresh(c), queue, t), t)

NetPass(p) ==
    /\ p \notin ticked
    /\ LET c == Pass(ctl[p], inbox[p], now)
       IN  /\ \A q \in Procs \ {p} : Len(inbox[q]) + Len(c.outbox) <= MaxInbox
           /\ ctl' = [ctl EXCEPT ![p] = c]
           /\ inbox' = [q \in Procs |->
                           IF q = p THEN << >> ELSE inbox[q] \o c.outbox]
    /\ ticked' = ticked \cup {p}
    /\ ev' = Event("pass", p, NoPacket, 0)
    /\ UNCHANGED now

NetAdvance ==
    /\ ticked = Procs
    /\ now + NetStep <= Epoch + NetHorizon
    /\ now' = now + NetStep
    /\ ticked' = {}
    /\ ev' = Event("time", Self0, NoPacket, 0)
    /\ UNCHANGED <<ctl, inbox>>

NextNet == (\E p \in Procs : NetPass(p)) \/ NetAdvance

SpecNet == InitNet /\ [][NextNet]_vars

\* the view of node p
View(p) == ctl[p].drone_network

(***************************************************************************)
(* Properties                                                              *)
(***************************************************************************)
\* the controller and the view of the node the single-node specifications follow
Node == ctl[Self0]
Net == View(Self0)

\* the packets of one kind in an outbox
Sent(c, action) == {i \in 1..Len(c.outbox) : c.outbox[i].action = action}

\* every node holds master m, node m is MASTER and every other node is SLAVE
AgreedOn(m) ==
    /\ \A p \in Procs : View(p).master_drone_id = m
    /\ \A p \in Procs : View(p).self_drone.status =
                            IF get_self_id(View(p)) = m THEN "master" ELSE "slave"

Agreed == \E m \in Procs : AgreedOn(m)

\* C1: in a network without loss or crash the nodes come to hold the same
\* masterId, with exactly that node MASTER and all others SLAVE, and this
\* stays so from then on: once the nodes agree, they agree after every step.
C1_AgreementStays == [][Agreed => Agreed']_vars

\* the keys of known_drones whose object is flagged is_self
SelfRecords(dn) == {k \in KnownIds(dn) : known_drones(dn, k).is_self}

\* C2: after any sequence of packets and timer passes, known_drones holds
\* exactly one object with is_self, under the key equal to the current self id.
C2_OneSelfRecord == SelfRecords(Net) = {get_self_id(Net)}

\* C3: at the end of every pass of the control loop master_drone_id is unset
\* or a key of known_drones.
C3_MasterKnownAtTickEnd ==
    ev.op = "tick" =>
        Net.master_drone_id \in {None} \cup KnownIds(Net)

\* C4: a packet whose sender id equals the receiver's self id makes the
\* receiver take a new self id and broadcast ID_CONFLICT_RESOLUTION with
\* (old id, new id).
C4_ConflictResolved ==
    [][(ev'.op = "recv" /\ ev'.packet.drone_id = get_self_id(Net)) =>
          /\ get_self_id(Net') # get_self_id(Net)
          /\ \E i \in Sent(Node', "ID_CONFLICT_RESOLUTION") :
                /\ Node'.outbox[i].params.old_id = get_self_id(Net)
                /\ Node'.outbox[i].params.new_id = get_self_id(Net')]_vars

\* a HEARTBEAT whose sender status is "master", from an id other than the
\* recorded master
ConflictingClaim(packet) ==
    /\ packet.action = "HEARTBEAT"
    /\ packet.current_state = "master"
    /\ packet.drone_id # get_self_id(Net)
    /\ Net.master_drone_id # None
    /\ Net.master_drone_id # packet.drone_id

\* C5: a HEARTBEAT with sender status "master" from an id other than the
\* recorded master makes the node clear master_drone_id and run an election,
\* whatever its timers and whether or not an election is in progress.
C5_ClaimRestartsElection ==
    [][(ev'.op = "recv" /\ ConflictingClaim(ev'.packet)) =>
          /\ Net'.master_drone_id = None
          /\ Node'.election_in_progress]_vars

\* the master id names no record and the node is not itself MASTER
MissingMaster ==
    /\ Net.master_drone_id # None
    /\ Net.master_drone_id \notin KnownIds(Net)
    /\ Net.self_drone.status # "master"

\* check_master_status has not run for a full master_election_interval
CheckDue == now - Node.last_master_check_time >= master_election_interval

\* the peers that are online in view dn at time t
OnlinePeers(dn, t) == get_online_ids(dn, online_timeout, t) \ {get_self_id(dn)}

\* C6: when master_drone_id names an id that is not in known_drones and the
\* node is not MASTER, the pass on which the liveness check is due clears
\* master_drone_id and, if another node is online, starts an election by
\* vote (election_in_progress set, ELECT_MASTER broadcast).
C6_MissingMasterCleared ==
    [][(ev'.op = "tick" /\ MissingMaster /\ CheckDue
            /\ ~Node.election_in_progress) =>
          /\ Net'.master_drone_id = None
          /\ OnlinePeers(Net, now) # {} =>
                /\ Node'.election_in_progress
                /\ Sent(Node', "ELECT_MASTER") # {}]_vars

\* the pass of node p ends the election that node p was running
Finalizes(p) ==
    /\ ev'.op = "pass" /\ ev'.who = p
    /\ ctl[p].election_in_progress
    /\ ~ctl'[p].election_in_progress

\* C7: nodes 5, 6, 7 with battery 90/80/70 and no master: the election of
\* node 5 ends after election_timeout with winner 5; node 5 then holds
\* master 5, record 5 MASTER and records 6 and 7 SLAVE.
C7_Node5Wins ==
    [][(/\ \A p \in Procs :
              View(p).self_drone.battery_level = ScenarioLevel(p)
        /\ Finalizes(Self0)
        /\ View(Self0).master_drone_id = None) =>
          /\ now - ctl[Self0].election_start_time > election_timeout
          /\ View(Self0)'.master_drone_id = Self0
          /\ View(Self0)'.self_drone.status = "master"
          /\ \A q \in Procs \ {Self0} :
                /\ q \in DOMAIN View(Self0)'.peers
                /\ View(Self0)'.peers[q].status = "slave"]_vars

\* C8: the status of the node itself becomes MASTER or SLAVE only on a pass
\* whose timers end an election after election_timeout.
C8_RoleOnlyByFinalization ==
    [][(/\ Net'.self_drone.status \in {"master", "slave"}
        /\ Net'.self_drone.status # Net.self_drone.status) =>
          /\ ev'.op = "tick"
          /\ Node.election_in_progress
          /\ ~Node'.election_in_progress
          /\ now - Node.election_start_time > election_timeout]_vars

\* the view update_state_based_on_network finds on this pass
AtUpdate == cleanup_timer(Node, now).drone_network

\* C9: a node that is CONNECTED, MASTER or SLAVE, with its self record in
\* place, becomes SEEKING only on a pass at which no peer record is online,
\* and then master_drone_id is cleared and discovery_attempts is 0.
C9_SeekingOnlyWhenAlone ==
    [][(/\ SelfRecords(Net) = {get_self_id(Net)}
        /\ Net.self_drone.status \in {"connected", "master", "slave"}
        /\ Net'.self_drone.status = "seeking") =>
          /\ ev'.op = "tick"
          /\ OnlinePeers(AtUpdate, now) = {}
          /\ Net'.master_drone_id = None
          /\ Node'.discovery_attempts = 0]_vars

(***************************************************************************)
(* SpecView: the operations of DroneNetwork called on the view of one      *)
(* node, in any order and with any arguments                               *)
(***************************************************************************)
\* the number of DroneNetwork calls in one run
MaxCalls == 3
\* the clock advances by ViewStep between calls, up to Epoch + ViewHorizon
ViewStep == 35
ViewHorizon == 70

\* the arguments of one call, in the shape of a packet
Call(method, drone_id, status, position, battery_level, signal_strength) ==
    command(drone_id, -1, status, method,
            [NoParams EXCEPT !.position = position,
                             !.battery_level = battery_level,
                             !.signal_strength = signal_strength])

NoArgs(method) == Call(method, None, "", Absent, Absent, Absent)

\* position, battery_level and signal_strength of a call: none given, the
\* reserved position with a battery level, all three
Fields == {<<Absent, Absent, Absent>>, <<Origin, 80, Absent>>, <<1, 80, 1>>}

CallAddOrUpdate ==
    /\ ev.n < MaxCalls
    /\ \E drone_id \in Ids, status \in {"connected", "slave"}, f \in Fields :
        /\ ctl' = [ctl EXCEPT ![Self0].drone_network =
                       add_or_update_drone(Net, drone_id, status, f[1], f[2],
                                           f[3], now)]
        /\ ev' = Event("add_or_update_drone", Self0,
                       Call("add_or_update_drone", drone_id, status, f[1],
                            f[2], f[3]), ev.n + 1)
    /\ UNCHANGED <<inbox, now, ticked>>

CallRemove ==
    /\ ev.n < MaxCalls
    /\ \E drone_id \in Ids :
        /\ ctl' = [ctl EXCEPT ![Self0].drone_network =
                       remove_drone(Net, drone_id)]
        /\ ev' = Event("remove_drone", Self0,
                       Call("remove_drone", drone_id, "", Absent, Absent,
                            Absent), ev.n + 1)
    /\ UNCHANGED <<inbox, now, ticked>>

CallSetSelfStatus ==
    /\ ev.n < MaxCalls
    /\ \E status \in {"connected", "seeking"} :
        /\ ctl' = [ctl EXCEPT ![Self0].drone_network =
                       set_self_status(Net, status, now)]
        /\ ev' = Event("set_self_status", Self0,
                       Call("set_self_status", None, status, Absent, Absent,
                            Absent), ev.n + 1)
    /\ UNCHANGED <<inbox, now, ticked>>

CallCleanup ==
    /\ ev.n < MaxCalls
    /\ ctl' = [ctl EXCEPT ![Self0].drone_network =
                   cleanup_offline_drones(Net, master_timeout, now)]
    /\ ev' = Event("cleanup_offline_drones", Self0,
                   NoArgs("cleanup_offline_drones"), ev.n + 1)
    /\ UNCHANGED <<inbox, now, ticked>>

CallResolve ==
    /\ ev.n < MaxCalls
    /\ \E draw \in {None} \cup Ids, fallback \in Ids :
        /\ draw # None => fallback = MinId(Ids)
        /\ ctl' = [ctl EXCEPT ![Self0].drone_network =
                       resolve_id_conflict(Net, draw, fallback)]
        /\ ev' = Event("resolve_id_conflict", Self0,
                       Call("resolve_id_conflict", draw, "", fallback, Absent,
                            Absent), ev.n + 1)
    /\ UNCHANGED <<inbox, now, ticked>>

CallElect ==
    /\ ev.n < MaxCalls
    /\ ctl' = [ctl EXCEPT ![Self0].drone_network = elect_master(Net, now)]
    /\ ev' = Event("elect_master", Self0, NoArgs("elect_master"), ev.n + 1)
    /\ UNCHANGED <<inbox, now, ticked>>

CallUpdateNetworkStatus ==
    /\ ev.n < MaxCalls
    /\ ctl' = [ctl EXCEPT ![Self0].drone_network =
                   update_network_status(Net, now)]
    /\ ev' = Event("update_network_status", Self0,
                   NoArgs("update_network_status"), ev.n + 1)
    /\ UNCHANGED <<inbox, now, ticked>>

ViewAdvance ==
    /\ now + ViewStep <= Epoch + ViewHorizon
    /\ now' = now + ViewStep
    /\ ev' = Event("time", Self0, NoPacket, ev.n)
    /\ UNCHANGED <<ctl, inbox, ticked>>

NextView ==
    \/ CallAddOrUpdate
    \/ CallRemove
    \/ CallSetSelfStatus
    \/ CallCleanup
    \/ CallResolve
    \/ CallElect
    \/ CallUpdateNetworkStatus
    \/ ViewAdvance

SpecView == Init /\ [][NextView]_vars

\* C10: add_or_update_drone called with the node's own id leaves status,
\* position, battery_level, signal_strength and last_seen of the self
\* record as they were.
C10_SelfUpdateRejected ==
    [][(/\ ev'.op = "add_or_update_drone"
        /\ ev'.packet.drone_id = get_self_id(Net)) =>
          Net'.self_drone = Net.self_drone]_vars

\* C11: resolve_id_conflict, also when all 100 draws collide and the id
\* derived from the timestamp is used, takes an id that was no key of
\* known_drones, removes no peer record, moves the self record to the new
\* key and appends exactly one (old id, new id) pair to id_conflicts.
C11_ResolveTakesFreshId ==
    [][(ev'.op = "resolve_id_conflict" /\ SelfRecords(Net) = {get_self_id(Net)}) =>
          /\ get_self_id(Net') \notin KnownIds(Net)
          /\ \A k \in DOMAIN Net.peers :
                k \in DOMAIN Net'.peers /\ Net'.peers[k] = Net.peers[k]
          /\ SelfRecords(Net') = {get_self_id(Net')}
          /\ get_self_id(Net) \notin KnownIds(Net')
          /\ Net'.id_conflicts =
                Append(Net.id_conflicts,
                       <<get_self_id(Net), get_self_id(Net')>>)]_vars

\* the keys of known_drones whose object is not flagged is_self
PeerRecords(dn) == KnownIds(dn) \ SelfRecords(dn)

\* C12: cleanup_offline_drones(timeout) removes no record flagged is_self,
\* removes every other record whose age exceeds timeout and keeps every
\* other record whose age does not exceed it.
C12_CleanupByAge ==
    LET after == cleanup_offline_drones(Net, master_timeout, now)
    IN  /\ SelfRecords(Net) \subseteq KnownIds(after)
        /\ \A k \in PeerRecords(Net) :
              (k \in KnownIds(after)) <=>
                  (now - known_drones(Net, k).last_seen <= master_timeout)

\* the election state of a controller
Election(c) ==
    <<c.election_in_progress, c.election_start_time, c.election_votes,
      c.has_voted>>

\* C13: a packet whose destination_id is a specific id (not -1) other than
\* the node's own id is ignored: view, election state and
\* last_master_heartbeat_time are unchanged and nothing is sent.
C13_OtherDestinationIgnored ==
    [][(/\ ev'.op = "recv"
        /\ ev'.packet.destination_id \notin {-1, get_self_id(Net)}) =>
          /\ Net' = Net
          /\ Election(Node') = Election(Node)
          /\ Node'.last_master_heartbeat_time = Node.last_master_heartbeat_time
          /\ Node'.outbox = << >>]_vars

(***************************************************************************)
(* SpecInbox: datagrams of any kind, malformed ones included, queue up in  *)
(* the packet buffer of one node, which drains it from time to time        *)
(***************************************************************************)
\* longest queue of pending datagrams
MaxPending == 3
\* the number of drains in one run
MaxDrains == 2
\* the clock advances by InboxStep between drains, up to Epoch + InboxHorizon
InboxStep == 20
InboxHorizon == 40

\* the bytes of a packet
Datagram(packet) == [decodes |-> TRUE, packet |-> packet]
\* bytes that data.decode, json.loads or decode_json reject
Malformed == [decodes |-> FALSE, packet |-> NoPacket]

\* handle_received_packet(packet) raises: DroneStatus(current_state) for a
\* string that is no status, or the handler of ID_CONFLICT_RESOLUTION
HandlerRaises(c, packet, t) ==
    /\ packet.drone_id # get_self_id(c.drone_network)
    /\ \/ packet.current_state \notin DroneStatus
       \/ RekeyRaises([c EXCEPT !.drone_network =
                          MergeSender(c.drone_network, packet, t)], packet)

RECURSIVE process_incoming_packets_uncaught(_, _, _)
\* the loop as it would be without the try block: it ends at the first
\* datagram that raises
process_incoming_packets_uncaught(c, queue, t) ==
    IF queue = << >> THEN [ctl |-> c, pending |-> queue]
    ELSE LET d == Head(queue)
             c1 == handle_received_packet(c, d.packet, t, None, None)
         IN  IF ~d.decodes THEN [ctl |-> c, pending |-> Tail(queue)]
             ELSE IF HandlerRaises(c, d.packet, t)
             THEN [ctl |-> c1, pending |-> Tail(queue)]
             ELSE process_incoming_packets_uncaught(c1, Tail(queue), t)

RECURSIVE process_incoming_packets(_, _, _)
\* ctl: the controller after the loop; pending: what get_packet still holds
process_incoming_packets(c, queue, t) ==
    IF queue = << >> THEN [ctl |-> c, pending |-> queue]
    ELSE LET d == Head(queue)
         IN  IF ~d.decodes
             THEN process_incoming_packets(c, Tail(queue), t)
             ELSE process_incoming_packets(
                      handle_received_packet(c, d.packet, t, None, None),
                      Tail(queue), t)

InboxDatagrams ==
    {Malformed,
     Datagram(heartbeat(6, "bogus", 1, 80)),
     Datagram(id_conflict_resolution(6, -1, "connected", 6, Unhashable)),
     Datagram(heartbeat(6, "connected", 1, 80)),
     Datagram(discovery_announce(7, "seeking", 1, 80))}

\* the packet callback of BroadcastHandler
Arrive ==
    /\ Len(inbox[Self0]) < MaxPending
    /\ \E d \in InboxDatagrams :
          inbox' = [inbox EXCEPT ![Self0] = Append(@, d)]
    /\ ev' = Event("arrive", Self0, NoPacket, ev.n)
    /\ UNCHANGED <<ctl, now, ticked>>

\* ev.packet: the queue the drain found
ProcessIncoming ==
    /\ ev.n < MaxDrains
    /\ LET done == process_incoming_packets(Fresh(Node), inbox[Self0], now)
       IN  /\ ctl' = [ctl EXCEPT ![Self0] = done.ctl]
           /\ inbox' = [inbox EXCEPT ![Self0] = done.pending]
    /\ ev' = Event("process_incoming_packets", Self0, inbox[Self0], ev.n + 1)
    /\ UNCHANGED <<now, ticked>>

InboxAdvance ==
    /\ now + InboxStep <= Epoch + InboxHorizon
    /\ now' = now + InboxStep
    /\ ev' = Event("time", Self0, NoPacket, ev.n)
    /\ UNCHANGED <<ctl, inbox, ticked>>

NextInbox == Arrive \/ ProcessIncoming \/ InboxAdvance

SpecInbox == Init /\ [][NextInbox]_vars

\* a datagram that raises in the drain: one that does not decode, one whose
\* current_state is no status, one that re-keys its sender to an unhashable id
BadDatagram(d) ==
    \/ ~d.decodes
    \/ d.packet.current_state \notin DroneStatus
    \/ /\ d.packet.action = "ID_CONFLICT_RESOLUTION"
       /\ d.packet.params.old_id = d.packet.drone_id
       /\ d.packet.params.new_id = Unhashable

\* the positions of the datagrams of one kind that do not raise
GoodOfKind(queue, action) ==
    {i \in 1..Len(queue) :
        ~BadDatagram(queue[i]) /\ queue[i].packet.action = action}

\* no datagram behind position i deletes the record of the sender of queue[i]
StaysKnown(queue, i) ==
    \A j \in (i + 1)..Len(queue) :
        ~(/\ queue[j].decodes
          /\ queue[j].packet.action = "ID_CONFLICT_RESOLUTION"
          /\ queue[j].packet.params.old_id = queue[i].packet.drone_id)

\* C14: a datagram that does not decode, or whose handler raises, does not
\* end the drain: the packet buffer is empty afterwards and every other
\* datagram of the queue, those behind it included, has been handled (its
\* sender is recorded as seen now, every DISCOVERY_ANNOUNCE is answered).
C14_DrainIsolated ==
    [][ev'.op = "process_incoming_packets" =>
          LET queue == inbox[Self0]
          IN  /\ inbox'[Self0] = << >>
              /\ \A i \in 1..Len(queue) :
                    (~BadDatagram(queue[i]) /\ StaysKnown(queue, i)) =>
                        /\ queue[i].packet.drone_id \in KnownIds(Net')
                        /\ known_drones(Net', queue[i].packet.drone_id)
                               .last_seen = now
              /\ Cardinality(Sent(Node', "DISCOVERY_RESPONSE")) =
                     Cardinality(GoodOfKind(queue, "DISCOVERY_ANNOUNCE"))]_vars

\* a drain of a queue with a malformed datagram, then a packet whose handler
\* raises, then a heartbeat of a sender that was not known: it is recorded
C14_Witness ==
    /\ ev.op = "process_incoming_packets"
    /\ Len(ev.packet) = MaxPending
    /\ ev.packet[1] = Malformed
    /\ ev.packet[2].decodes /\ BadDatagram(ev.packet[2])
    /\ ev.packet[MaxPending] = Datagram(heartbeat(6, "connected", 1, 80))
    /\ 6 \in KnownIds(Net)
    /\ Net.peers[6].last_seen = now
    /\ now > Epoch
    /\ inbox[Self0] = << >>

\* what the claims call the Network View
NetworkView(dn) ==
    [ids |-> KnownIds(dn),
     status |-> [k \in KnownIds(dn) |-> known_drones(dn, k).status],
     master_drone_id |-> dn.master_drone_id,
     network_established |-> dn.network_established]

StatusPackets ==
    {network_status(sender, state, known, master_id) :
        sender \in {6, 7}, state \in {"connected", "slave"},
        known \in {{}, {8}, {5, 6, 7}}, master_id \in {None, 5, 6, 8}}

HandledOnce(c, packet, t) == handle_received_packet(c, packet, t, None, None)

HandledTwice(c, packet, t) == HandledOnce(HandledOnce(c, packet, t), packet, t)

\* C15: handling a NETWORK_STATUS message a second time changes neither the
\* known ids, nor a record's status, nor the master, nor network_established
\* (checked from the views that hold one self record and a known master or
\* none).
C15_StatusIdempotent ==
    \A packet \in StatusPackets :
        (/\ SelfRecords(Net) = {get_self_id(Net)}
         /\ Net.master_drone_id \in KnownIds(Net) \cup {None}) =>
        NetworkView(HandledTwice(Node, packet, now).drone_network) =
            NetworkView(HandledOnce(Node, packet, now).drone_network)

\* C16: add_or_update_drone on a known peer id keeps the record's position,
\* battery level and signal strength where the call gives none, always writes
\* the status and always refreshes last_seen.
C16_UnsuppliedFieldsKept ==
    [][(ev'.op = "add_or_update_drone" /\ ev'.packet.drone_id \in PeerRecords(Net)) =>
          LET k == ev'.packet.drone_id
              given == ev'.packet.params
              old == Net.peers[k]
              new == Net'.peers[k]
          IN  /\ k \in DOMAIN Net'.peers
              /\ (given.position = Absent => new.position = old.position)
              /\ (given.battery_level = Absent =>
                      new.battery_level = old.battery_level)
              /\ (given.signal_strength = Absent =>
                      new.signal_strength = old.signal_strength)
              /\ new.status = ev'.packet.current_state
              /\ new.last_seen = now]_vars

\* peer 6, recorded earlier with position 1, battery 80 and signal 1, has been
\* updated later by a call that gave a status only
C16_Witness ==
    /\ ev.op = "add_or_update_drone"
    /\ ev.packet.drone_id = 6
    /\ ev.packet.params.position = Absent
    /\ ev.packet.params.battery_level = Absent
    /\ ev.packet.params.signal_strength = Absent
    /\ ev.packet.current_state = "slave"
    /\ 6 \in DOMAIN Net.peers
    /\ Net.peers[6].position = 1
    /\ Net.peers[6].battery_level = 80
    /\ Net.peers[6].signal_strength = 1
    /\ Net.peers[6].status = "slave"
    /\ Net.peers[6].discovery_time < now
    /\ Net.peers[6].last_seen = now

(***************************************************************************)
(* SpecScore: select_master_candidate applied to the views of node 5 that  *)
(* messages, the battery reading and the passing of time produce           *)
(***************************************************************************)
MaxReports == 3
ScoreStep == 35
ScoreHorizon == 70

\* the senders heard of (0 is the lowest id a drone can be started with) and
\* the battery levels reported
ScoreIds == {0, 6, 7}
ScoreLevels == {90, 100}

\* a heartbeat that carries all three fields the sender merge asks for
Report(drone_id, level) ==
    [heartbeat(drone_id, "connected", 1, level)
        EXCEPT !.params.signal_strength = 1]

ScoreReport ==
    /\ ev.n < MaxReports
    /\ \E drone_id \in ScoreIds, level \in ScoreLevels :
        /\ ctl' = [ctl EXCEPT ![Self0] = handle_received_packet(
                       Fresh(Node), Report(drone_id, level), now, None, None)]
        /\ ev' = Event("recv", Self0, Report(drone_id, level), ev.n + 1)
    /\ UNCHANGED <<inbox, now, ticked>>

\* the node's own battery reading: self_drone.update_battery(level)
ScoreSelfBattery ==
    /\ ev.n < MaxReports
    /\ \E level \in ScoreLevels :
        /\ ctl' = [ctl EXCEPT ![Self0].drone_network.self_drone =
                       update_battery(Net.self_drone, level, now)]
        /\ ev' = Event("update_battery", Self0, NoPacket, ev.n + 1)
    /\ UNCHANGED <<inbox, now, ticked>>

\* the candidate is recorded in the event
ScoreSelect ==
    /\ ev' = Event("select_master_candidate", Self0,
                   [NoPacket EXCEPT !.params.candidate_id =
                                        select_master_candidate(Net, now)],
                   ev.n)
    /\ UNCHANGED <<ctl, inbox, now, ticked>>

ScoreAdvance ==
    /\ now + ScoreStep <= Epoch + ScoreHorizon
    /\ now' = now + ScoreStep
    /\ ev' = Event("time", Self0, NoPacket, ev.n)
    /\ UNCHANGED <<ctl, inbox, ticked>>

NextScore == ScoreReport \/ ScoreSelfBattery \/ ScoreSelect \/ ScoreAdvance

SpecScore == Init /\ [][NextScore]_vars

\* the records select_master_candidate scores: the online ones and self
ScoredRecords(dn, t) ==
    {known_drones(dn, k) : k \in get_online_ids(dn, online_timeout, t)}
        \cup {dn.self_drone}

\* C17: the candidate is a scored record of the highest battery level and,
\* among those of the highest level, of the lowest id.
C17_BestCandidate ==
    ev.op = "select_master_candidate" =>
        \E r \in ScoredRecords(Net, now) :
            /\ r.drone_id = ev.packet.params.candidate_id
            /\ \A q \in ScoredRecords(Net, now) :
                  /\ q.battery_level <= r.battery_level
                  /\ q.battery_level = r.battery_level =>
                         r.drone_id <= q.drone_id

(***************************************************************************)
(* SpecCodec: DronePacket's constructors, to_json and decode_json on the   *)
(* values a packet is made of.  inbox[5] is the wire: the JSON texts that  *)
(* send_broadcast was given and no receiver has taken yet                  *)
(***************************************************************************)
MaxSent == 2
MaxWire == 2

\* Python values: v holds the number or the items, s the characters
PyNumber(n) == [py |-> "number", v |-> <<n>>, s |-> ""]
PyStr(chars) == [py |-> "str", v |-> << >>, s |-> chars]
PyNone == [py |-> "NoneType", v |-> << >>, s |-> ""]
PyTuple(items) == [py |-> "tuple", v |-> items, s |-> ""]
PyList(items) == [py |-> "list", v |-> items, s |-> ""]
PyDict == [py |-> "dict", v |-> << >>, s |-> ""]

\* json.dumps: a tuple and a list are both written as an array
dumps(x) ==
    [json |-> CASE x.py = "number" -> "number"
                [] x.py = "str" -> "string"
                [] x.py = "NoneType" -> "null"
                [] x.py \in {"tuple", "list"} -> "array"
                [] x.py = "dict" -> "object",
     v |-> x.v, s |-> x.s]

\* json.loads: an array is read as a list
loads(j) ==
    [py |-> CASE j.json = "number" -> "number"
              [] j.json = "string" -> "str"
              [] j.json = "null" -> "NoneType"
              [] j.json = "array" -> "list"
              [] j.json = "object" -> "dict",
     v |-> j.v, s |-> j.s]

\* DronePacket.command: the attributes of the packet object
DronePacket(timestamp, drone_id, destination_id, current_state, action, params) ==
    [timestamp |-> PyNumber(timestamp), drone_id |-> PyNumber(drone_id),
     destination_id |-> PyNumber(destination_id),
     current_state |-> PyStr(current_state),
     request_action |-> PyStr(action), params |-> params]

to_json(m) ==
    [timestamp |-> dumps(m.timestamp), drone_id |-> dumps(m.drone_id),
     destination_id |-> dumps(m.destination_id),
     current_state |-> dumps(m.current_state),
     action |-> dumps(m.request_action),
     params |-> [k \in DOMAIN m.params |-> dumps(m.params[k])]]

decode_json(j) ==
    [timestamp |-> loads(j.timestamp), drone_id |-> loads(j.drone_id),
     destination_id |-> loads(j.destination_id),
     current_state |-> loads(j.current_state),
     request_action |-> loads(j.action),
     params |-> [k \in DOMAIN j.params |-> loads(j.params[k])]]

\* the params dictionaries the constructors build
PingParams == [k \in {} |-> PyNone]
SetIdParams(new_id) == [k \in {"new_id"} |-> PyNumber(new_id)]
AnnounceParams(position, battery_level, t, time_key) ==
    [k \in {"position", "battery_level", "capabilities", time_key} |->
        CASE k = "position" -> position
          [] k = "battery_level" -> PyNumber(battery_level)
          [] k = "capabilities" -> PyList(<< >>)
          [] OTHER -> PyNumber(t)]
HeartbeatParams(position, battery_level, t) ==
    [k \in {"position", "battery_level", "heartbeat_time"} |->
        CASE k = "position" -> position
          [] k = "battery_level" -> PyNumber(battery_level)
          [] OTHER -> PyNumber(t)]
NetworkStatusParams(known, master_id, t) ==
    [k \in {"known_drones", "master_id", "status_time"} |->
        CASE k = "known_drones" -> PyList(known)
          [] k = "master_id" ->
                 IF master_id = None THEN PyNone ELSE PyNumber(master_id)
          [] OTHER -> PyNumber(t)]
ResolutionParams(old_id, new_id, t) ==
    [k \in {"old_id", "new_id", "resolution_time"} |->
        CASE k = "old_id" -> PyNumber(old_id)
          [] k = "new_id" -> PyNumber(new_id)
          [] OTHER -> PyNumber(t)]
ElectParams(candidate_id, t) ==
    [k \in {"candidate_id", "criteria", "election_time"} |->
        CASE k = "candidate_id" -> PyNumber(candidate_id)
          [] k = "criteria" -> PyDict
          [] OTHER -> PyNumber(t)]

\* the positions callers pass: the default (0,0,0) and self_drone.position
Positions == {PyTuple(<<0, 0, 0>>), PyTuple(<<1, 2, 0>>)}

\* the packets the constructors build at time t for sender and destination
Constructed(drone_id, destination_id, current_state, t) ==
    {DronePacket(t, drone_id, destination_id, current_state, "PING", PingParams),
     DronePacket(t, drone_id, destination_id, current_state, "SET_ID",
                 SetIdParams(8)),
     DronePacket(t, drone_id, destination_id, current_state, "ACK", PingParams),
     DronePacket(t, drone_id, -1, current_state, "NETWORK_STATUS",
                 NetworkStatusParams(<<5, 6>>, None, t)),
     DronePacket(t, drone_id, -1, current_state, "NETWORK_STATUS",
                 NetworkStatusParams(<< >>, 5, t)),
     DronePacket(t, drone_id, destination_id, current_state,
                 "ID_CONFLICT_RESOLUTION", ResolutionParams(5, 8, t)),
     DronePacket(t, drone_id, -1, current_state, "ELECT_MASTER",
                 ElectParams(6, t))}
    \cup {DronePacket(t, drone_id, -1, current_state, "DISCOVERY_ANNOUNCE",
                      AnnounceParams(position, 100, t, "discovery_time")) :
             position \in Positions}
    \cup {DronePacket(t, drone_id, destination_id, current_state,
                      "DISCOVERY_RESPONSE",
                      AnnounceParams(position, 100, t, "response_time")) :
             position \in Positions}
    \cup {DronePacket(t, drone_id, -1, current_state, "HEARTBEAT",
                      HeartbeatParams(position, 100, t)) :
             position \in Positions}

\* a constructor builds the packet and hands its JSON text to send_broadcast
CodecSend ==
    /\ ev.n < MaxSent
    /\ Len(inbox[Self0]) < MaxWire
    /\ \E destination_id \in {-1, 6}, current_state \in {"seeking", "master"} :
        \E m \in Constructed(Self0, destination_id, current_state, now) :
            /\ inbox' = [inbox EXCEPT ![Self0] = Append(@, to_json(m))]
            /\ ev' = Event("to_json", Self0, m, ev.n + 1)
    /\ UNCHANGED <<ctl, now, ticked>>

\* a receiver takes the oldest text off the wire and decodes it
CodecReceive ==
    /\ inbox[Self0] # << >>
    /\ inbox' = [inbox EXCEPT ![Self0] = Tail(@)]
    /\ ev' = Event("decode_json", Self0, decode_json(Head(inbox[Self0])), ev.n)
    /\ UNCHANGED <<ctl, now, ticked>>

NextCodec == CodecSend \/ CodecReceive

SpecCodec == Init /\ [][NextCodec]_vars

\* C18: the packet decoded from the text a constructor has just sent has the
\* timestamp, sender, destination, status, action and params of the packet
\* that was built.
C18_RoundTrip ==
    ev.op = "to_json" =>
        decode_json(inbox[Self0][Len(inbox[Self0])]) = ev.packet

\* C19: the status of the node's own record is SEEKING, CONNECTED, MASTER or
\* SLAVE in every state, whatever statuses the packets carry.
C19_SelfStatusLive ==
    Net.self_drone.status \in {"seeking", "connected", "master", "slave"}

\* a packet of state OFFLINE has been handled: its sender is recorded as
\* offline, the node's own status is a live one
C19_Witness ==
    /\ ev.op = "recv"
    /\ ev.packet.current_state = "offline"
    /\ ev.packet.drone_id \in DOMAIN Net.peers
    /\ Net.peers[ev.packet.drone_id].status = "offline"
    /\ Net.self_drone.status \in {"seeking", "connected", "master", "slave"}

\* C20: an election in progress ends only on a pass of the control loop, and
\* only when more than election_timeout has passed since election_start_time;
\* no packet, a vote included, ends it.
C20_FinalizedOnlyByPoll ==
    [][(Node.election_in_progress /\ ~Node'.election_in_progress) =>
          /\ ev'.op = "tick"
          /\ now - Node.election_start_time > election_timeout]_vars

\* the pass that has just ended an election which had received a vote: the
\* votes are cleared, the master is set and announced
C20_Witness ==
    /\ ev.op = "tick"
    /\ ~Node.election_in_progress
    /\ Node.election_start_time >= Epoch
    /\ now - Node.election_start_time > election_timeout
    /\ Node.last_master_heartbeat_time = now
    /\ DOMAIN Node.election_votes = {}
    /\ ~Node.has_voted
    /\ Net.master_drone_id # None
    /\ Sent(Node, "NETWORK_STATUS") # {}

(***************************************************************************)
(* SpecElect: node 5 hears heartbeats and votes of nodes 6 and 7 and runs  *)
(* its control loop                                                        *)
(***************************************************************************)
MaxHeard == 4
ElectStep == 6
ElectHorizon == 24

ElectPackets ==
    {heartbeat(6, "connected", 1, 80),
     heartbeat(7, "connected", 1, 80),
     elect_master_packet(6, "connected", 6),
     elect_master_packet(6, "connected", 7),
     elect_master_packet(7, "connected", 6),
     elect_master_packet(7, "connected", 7),
     elect_master_packet(7, "connected", 5),
     elect_master_packet(6, "connected", 8)}

ElectDeliver ==
    /\ ev.n < MaxHeard
    /\ \E packet \in ElectPackets :
        /\ ctl' = [ctl EXCEPT ![Self0] = handle_received_packet(
                       Fresh(Node), packet, now, None, None)]
        /\ ev' = Event("recv", Self0, packet, ev.n + 1)
    /\ UNCHANGED <<inbox, now, ticked>>

ElectTick ==
    /\ ev.op # "tick"
    /\ ctl' = [ctl EXCEPT ![Self0] = control_loop(Fresh(Node), now)]
    /\ ev' = Event("tick", Self0, NoPacket, ev.n)
    /\ UNCHANGED <<inbox, now, ticked>>

ElectAdvance ==
    /\ ev.op = "tick"
    /\ now + ElectStep <= Epoch + ElectHorizon
    /\ now' = now + ElectStep
    /\ ev' = Event("time", Self0, NoPacket, ev.n)
    /\ UNCHANGED <<ctl, inbox, ticked>>

NextElect == ElectDeliver \/ ElectTick \/ ElectAdvance

SpecElect == Init /\ [][NextElect]_vars

\* the pass ends the election that was running
Finalized ==
    /\ ev'.op = "tick"
    /\ Node.election_in_progress
    /\ ~Node'.election_in_progress

\* the master the last NETWORK_STATUS of the outbox announces
Announced(c) ==
    LET sent == Sent(c, "NETWORK_STATUS")
    IN  c.outbox[CHOOSE i \in sent : \A j \in sent : j <= i].params.master_id

\* the votes candidate x has in votes
Tally(votes, x) == Cardinality({v \in DOMAIN votes : votes[v] = x})

\* C21: a vote of a sender replaces that sender's earlier vote and leaves the
\* votes of the other senders alone; the election ends with the candidate of
\* the most votes, the lowest id among those of equal votes, and with the
\* node's own id when no vote is recorded.
C21_WinnerByTally ==
    [][/\ (/\ ev'.op = "recv" /\ ev'.packet.action = "ELECT_MASTER"
           /\ Node.election_in_progress) =>
              /\ ev'.packet.drone_id \in DOMAIN Node'.election_votes
              /\ Node'.election_votes[ev'.packet.drone_id] =
                     ev'.packet.params.candidate_id
              /\ \A v \in DOMAIN Node.election_votes \ {ev'.packet.drone_id} :
                    /\ v \in DOMAIN Node'.election_votes
                    /\ Node'.election_votes[v] = Node.election_votes[v]
       /\ Finalized =>
              LET votes == Node.election_votes
                  cands == {votes[v] : v \in DOMAIN votes}
                  winner == Announced(Node')
              IN  /\ Sent(Node', "NETWORK_STATUS") # {}
                  /\ cands = {} => winner = get_self_id(Net)
                  /\ cands # {} =>
                         /\ winner \in cands
                         /\ \A y \in cands :
                               \/ Tally(votes, winner) > Tally(votes, y)
                               \/ /\ Tally(votes, winner) = Tally(votes, y)
                                  /\ winner <= y]_vars

\* an election has just ended with 6 announced as master although the node
\* voted for itself: the votes of 6 and 7 outnumbered its own
C21_Witness ==
    /\ ev.op = "tick"
    /\ ~Node.election_in_progress
    /\ Node.election_start_time >= Epoch
    /\ Node.last_master_heartbeat_time = now
    /\ Sent(Node, "NETWORK_STATUS") # {}
    /\ Announced(Node) = 6
    /\ get_self_id(Net) = 5

\* the controller as process_election_results finds it on a pass at time t:
\* after the cleanup branch, the SEEKING -> CONNECTED switch and
\* check_master_status
BeforePoll(c, t) ==
    LET c0 == cleanup_timer(c, t)
        dn == c0.drone_network
        c1 == IF dn.self_drone.status = "seeking"
              THEN [c0 EXCEPT !.drone_network =
                       set_self_status(dn, "connected", t)]
              ELSE c0
    IN  check_master_status(c1, t)

\* the pass at time t reaches the poll and the poll finalizes
PollFinalizes(c, t) ==
    /\ get_online_drone_count(cleanup_timer(c, t).drone_network,
                              online_timeout, t) > 1
    /\ BeforePoll(c, t).election_in_progress
    /\ t - BeforePoll(c, t).election_start_time > election_timeout

\* C22: right after finalize_election the master is the winner, every online
\* record is MASTER if its id is the winner and SLAVE otherwise, the node
\* itself is MASTER exactly when it is the winner and SLAVE otherwise, the
\* election state is reset, and one NETWORK_STATUS that carries the winner has
\* been sent.
C22_AfterFinalization ==
    PollFinalizes(Fresh(Node), now) =>
        LET pre == BeforePoll(Fresh(Node), now)
            post == finalize_election(pre, now)
            dn == post.drone_network
            winner == Winner(pre.election_votes, get_self_id(pre.drone_network))
        IN  /\ dn.master_drone_id = winner
            /\ \A k \in get_online_ids(pre.drone_network, online_timeout, now) :
                  /\ k \in KnownIds(dn)
                  /\ known_drones(dn, k).status =
                         IF known_drones(dn, k).drone_id = winner
                         THEN "master" ELSE "slave"
            /\ dn.self_drone.status =
                   IF winner = get_self_id(dn) THEN "master" ELSE "slave"
            /\ ~post.election_in_progress
            /\ DOMAIN post.election_votes = {}
            /\ ~post.has_voted
            /\ Cardinality(Sent(post, "NETWORK_STATUS")) =
                   Cardinality(Sent(pre, "NETWORK_STATUS")) + 1
            /\ Announced(post) = winner

\* the poll of the coming pass finalizes an election in which 6 and 7 have
\* voted for 6 and the node for itself: 6 wins, the node becomes SLAVE
C22_Witness ==
    /\ PollFinalizes(Fresh(Node), now)
    /\ DOMAIN Node.election_votes = {5, 6, 7}
    /\ Node.election_votes[6] = 6
    /\ Node.election_votes[7] = 6
    /\ finalize_election(BeforePoll(Fresh(Node), now), now)
           .drone_network.self_drone.status = "slave"
    /\ finalize_election(BeforePoll(Fresh(Node), now), now)
           .drone_network.peers[6].status = "master"

\* C23: a node that is MASTER and holds its own id as master keeps that
\* master over a pass of its control loop on which a peer is online: neither
\* the liveness check nor the view correction clears or replaces it.
C23_MasterKeepsItself ==
    [][(/\ ev'.op = "tick"
        /\ SelfRecords(Net) = {get_self_id(Net)}
        /\ Net.self_drone.status = "master"
        /\ Net.master_drone_id = get_self_id(Net)
        /\ ~Node.election_in_progress
        /\ OnlinePeers(AtUpdate, now) # {}) =>
          Net'.master_drone_id = get_self_id(Net)]_vars

\* the pass at hand runs the liveness check: more than one record is online
\* and the check is due
CheckRuns ==
    /\ get_online_drone_count(AtUpdate, online_timeout, now) > 1
    /\ CheckDue

\* the record of the master has failed is_online(master_timeout)
MasterRecordStale ==
    /\ AtUpdate.master_drone_id \in KnownIds(AtUpdate)
    /\ ~is_online(known_drones(AtUpdate, AtUpdate.master_drone_id),
                  master_timeout, now)

\* the liveness check of the pass at hand judges the master offline
JudgedOffline ==
    /\ CheckRuns
    /\ AtUpdate.master_drone_id # None
    /\ Net.self_drone.status # "master"
    /\ \/ AtUpdate.master_drone_id \notin KnownIds(AtUpdate)
       \/ MasterRecordStale
       \/ now - Node.last_master_heartbeat_time > master_timeout

\* C24: the pass whose liveness check judges the master offline clears
\* master_drone_id, removes the master's record if it failed
\* is_online(master_timeout), and starts no election when no node other than
\* the node itself is online afterwards.
C24_NoElectionAlone ==
    [][(/\ ev'.op = "tick" /\ JudgedOffline
        /\ SelfRecords(Net) = {get_self_id(Net)}
        /\ ~Node.election_in_progress) =>
          /\ Net'.master_drone_id = None
          /\ (MasterRecordStale /\ AtUpdate.master_drone_id # get_self_id(Net))
                 => AtUpdate.master_drone_id \notin KnownIds(Net')
          /\ OnlinePeers(Net', now) = {} => ~Node'.election_in_progress]_vars

\* master_drone_id is set and names no record, or a record that is not online
MasterInvalid(dn, t) ==
    /\ dn.master_drone_id # None
    /\ \/ dn.master_drone_id \notin KnownIds(dn)
       \/ ~is_online(known_drones(dn, dn.master_drone_id), online_timeout, t)

\* C25: update_network_status on a view whose master is absent or not online
\* only clears master_drone_id: no master is chosen and no record's status,
\* the self record's included, changes.
C25_OnlyClearsMaster ==
    LET after == update_network_status(Net, now)
    IN  MasterInvalid(Net, now) =>
          /\ after.master_drone_id = None
          /\ KnownIds(after) = KnownIds(Net)
          /\ \A k \in KnownIds(Net) :
                known_drones(after, k).status = known_drones(Net, k).status
          /\ after.self_drone.status = Net.self_drone.status

\* C26: the time of the last master heartbeat is moved by a packet only when
\* the packet is a HEARTBEAT of the recorded master or changes the master;
\* when that time is more than master_timeout old, the next liveness check of
\* a node that is not MASTER clears master_drone_id, although the record of
\* the master is fresh.
C26_StaleBeatClearsMaster ==
    [][/\ (/\ ev'.op = "recv"
           /\ Net.self_drone.status # "master"
           /\ Net.master_drone_id # None
           /\ SelfRecords(Net) = {get_self_id(Net)}
           /\ Node'.last_master_heartbeat_time # Node.last_master_heartbeat_time)
              => \/ /\ ev'.packet.action = "HEARTBEAT"
                    /\ ev'.packet.drone_id = Net.master_drone_id
                 \/ Net'.master_drone_id # Net.master_drone_id
       /\ (/\ ev'.op = "tick" /\ CheckRuns
           /\ Net.self_drone.status # "master"
           /\ AtUpdate.master_drone_id # None
           /\ now - Node.last_master_heartbeat_time > master_timeout)
              => Net'.master_drone_id = None]_vars

\* the view as check_master_status finds it on the pass at hand: after the
\* cleanup branch and the SEEKING -> CONNECTED switch
AtCheck ==
    IF AtUpdate.self_drone.status = "seeking"
    THEN set_self_status(AtUpdate, "connected", now) ELSE AtUpdate

\* C27: a pass whose liveness check runs while master_drone_id is unset, more
\* than one record is online and no election is in progress starts an
\* election: election_in_progress is true, election_start_time is the current
\* time, election_votes holds the node's own vote and nothing else, and
\* exactly one ELECT_MASTER, carrying that vote, has been sent.
C27_CheckStartsElection ==
    [][(/\ ev'.op = "tick" /\ CheckRuns
        /\ AtUpdate.master_drone_id = None
        /\ ~Node.election_in_progress) =>
          /\ Node'.election_in_progress
          /\ Node'.election_start_time = now
          /\ Node'.has_voted
          /\ DOMAIN Node'.election_votes = {get_self_id(Net)}
          /\ Node'.election_votes[get_self_id(Net)] =
                 select_master_candidate(AtCheck, now)
          /\ Cardinality(Sent(Node', "ELECT_MASTER")) = 1
          /\ \A i \in Sent(Node', "ELECT_MASTER") :
                 /\ Node'.outbox[i].drone_id = get_self_id(Net)
                 /\ Node'.outbox[i].params.candidate_id =
                        Node'.election_votes[get_self_id(Net)]]_vars

\* a pass after the start has just opened an election with the node's vote
C27_Witness ==
    /\ ev.op = "tick"
    /\ now > Epoch
    /\ Node.last_master_check_time = now
    /\ Node.election_in_progress
    /\ Node.election_start_time = now
    /\ DOMAIN Node.election_votes = {5}
    /\ Cardinality(Sent(Node, "ELECT_MASTER")) = 1
    /\ OnlinePeers(Net, now) # {}

\* C28: an ELECT_MASTER handled while no election is in progress leaves
\* election_in_progress false and election_votes, has_voted and
\* election_start_time as they were, and no ELECT_MASTER is sent.
C28_UnsolicitedVoteIgnored ==
    [][(/\ ev'.op = "recv"
        /\ ev'.packet.action = "ELECT_MASTER"
        /\ ~Node.election_in_progress) =>
          /\ ~Node'.election_in_progress
          /\ Node'.election_votes = Node.election_votes
          /\ Node'.has_voted = Node.has_voted
          /\ Node'.election_start_time = Node.election_start_time
          /\ Sent(Node', "ELECT_MASTER") = {}]_vars

\* an ELECT_MASTER of a known peer has been handled after an election of the
\* node was finalized and before another one began
C28_Witness ==
    /\ ev.op = "recv"
    /\ ev.packet.action = "ELECT_MASTER"
    /\ ev.packet.drone_id \in DOMAIN Net.peers
    /\ ~Node.election_in_progress
    /\ Node.election_start_time >= Epoch
    /\ Node.election_votes = [x \in {} |-> x]
    /\ Sent(Node, "ELECT_MASTER") = {}

\* the view in which the vote of the step at hand is cast: the one the
\* liveness check finds on a pass, the one the handler finds on a receipt
AtVote ==
    IF ev'.op = "tick" THEN AtCheck
    ELSE MergeSender(Net, ev'.packet, now)

\* C29: the step that opens an election sends exactly one ELECT_MASTER and
\* records as the node's own vote the candidate select_master_candidate
\* returns at that moment; while the election stays in progress no step
\* sends another ELECT_MASTER and the node's own vote stays recorded and
\* unchanged, whatever is received and however the view changes.
C29_OneVotePerElection ==
    [][/\ (/\ ev'.op \in {"recv", "tick"}
           /\ ~Node.election_in_progress /\ Node'.election_in_progress) =>
              /\ Cardinality(Sent(Node', "ELECT_MASTER")) = 1
              /\ Node'.has_voted
              /\ get_self_id(Net') \in DOMAIN Node'.election_votes
              /\ Node'.election_votes[get_self_id(Net')] =
                     select_master_candidate(AtVote, now)
       /\ (/\ ev'.op \in {"recv", "tick"}
           /\ Node.election_in_progress /\ Node'.election_in_progress) =>
              /\ Sent(Node', "ELECT_MASTER") = {}
              /\ Node'.has_voted
              /\ Node'.election_start_time = Node.election_start_time
              /\ get_self_id(Net') \in DOMAIN Node'.election_votes
              /\ get_self_id(Net) \in DOMAIN Node.election_votes
              /\ Node'.election_votes[get_self_id(Net')] =
                     Node.election_votes[get_self_id(Net)]]_vars

\* C30: after a HEARTBEAT or DISCOVERY_ANNOUNCE of a peer has been merged,
\* the record of the sender holds every one of position, battery_level and
\* signal_strength that params supplied, whether or not the others were
\* supplied: position and battery_level of a packet without signal_strength
\* are taken.
C30_FieldsMergedIndependently ==
    [][(/\ ev'.op = "recv"
        /\ ev'.packet.action \in {"HEARTBEAT", "DISCOVERY_ANNOUNCE"}
        /\ ev'.packet.drone_id # get_self_id(Net)
        /\ ev'.packet.current_state \in DroneStatus
        /\ SelfRecords(Net) = {get_self_id(Net)}
        /\ ev'.packet.drone_id \in DOMAIN Net'.peers) =>
          LET params == ev'.packet.params
              rec == Net'.peers[ev'.packet.drone_id]
          IN  /\ params.position # Absent => rec.position = params.position
              /\ params.battery_level # Absent =>
                     rec.battery_level = params.battery_level
              /\ params.signal_strength # Absent =>
                     rec.signal_strength = params.signal_strength]_vars

(***************************************************************************)
(* SpecSeek: node 5 runs its control loop for a long time and hears peer 6 *)
(* now and then                                                            *)
(***************************************************************************)
MaxSought == 2
SeekStep == 6
SeekHorizon == 180

SeekPackets ==
    {heartbeat(6, "connected", 1, 80),
     heartbeat(7, "connected", 1, 80),
     network_status(6, "connected", {}, 6)}

SeekDeliver ==
    /\ ev.op # "tick"
    /\ ev.n < MaxSought
    /\ \E packet \in SeekPackets :
        /\ ctl' = [ctl EXCEPT ![Self0] = handle_received_packet(
                       Fresh(Node), packet, now, None, None)]
        /\ ev' = Event("recv", Self0, packet, ev.n + 1)
    /\ UNCHANGED <<inbox, now, ticked>>

SeekTick ==
    /\ ev.op # "tick"
    /\ ctl' = [ctl EXCEPT ![Self0] = control_loop(Fresh(Node), now)]
    /\ ev' = Event("tick", Self0, NoPacket, ev.n)
    /\ UNCHANGED <<inbox, now, ticked>>

SeekAdvance ==
    /\ ev.op = "tick"
    /\ now + SeekStep <= Epoch + SeekHorizon
    /\ now' = now + SeekStep
    /\ ev' = Event("time", Self0, NoPacket, ev.n)
    /\ UNCHANGED <<ctl, inbox, ticked>>

NextSeek == SeekDeliver \/ SeekTick \/ SeekAdvance

SpecSeek == Init /\ [][NextSeek]_vars

\* the step SeekTick takes, as the event records it
PassTaken == ev.op # "tick" /\ ev' = Event("tick", Self0, NoPacket, ev.n)

\* the loop never stops: after each sleep it runs the next pass, and after
\* each pass it sleeps
SpecSeekFair == SpecSeek /\ WF_ev(PassTaken) /\ WF_vars(SeekAdvance)

\* C31: a DISCOVERY_ANNOUNCE is sent only by a pass of a node that is
\* SEEKING, one per pass, and each one counts as an attempt below the maximum
\* of 10; the attempt counter changes otherwise only by being reset to 0 on a
\* pass where the node falls back from CONNECTED, MASTER or SLAVE to SEEKING.
\* So at most 10 announcements are sent between two entries into SEEKING.
C31_AnnounceOnlySeekingCapped ==
    [][(ev'.op \in {"recv", "tick"}) =>
        /\ Sent(Node', "DISCOVERY_ANNOUNCE") # {} =>
              /\ ev'.op = "tick"
              /\ Net.self_drone.status = "seeking"
              /\ Cardinality(Sent(Node', "DISCOVERY_ANNOUNCE")) = 1
              /\ Node.discovery_attempts < max_discovery_attempts
              /\ Node'.discovery_attempts = Node.discovery_attempts + 1
        /\ (/\ Sent(Node', "DISCOVERY_ANNOUNCE") = {}
            /\ Node'.discovery_attempts # Node.discovery_attempts) =>
              /\ ev'.op = "tick"
              /\ Node'.discovery_attempts = 0
              /\ Net.self_drone.status \in {"connected", "master", "slave"}
              /\ Net'.self_drone.status = "seeking"
        /\ Node'.discovery_attempts <= max_discovery_attempts]_vars

\* a pass of the SEEKING node whose announcement was due went by without
\* one: the ten attempts are used up
C31_Witness ==
    /\ ev.op = "tick"
    /\ Net.self_drone.status = "seeking"
    /\ Node.discovery_attempts = max_discovery_attempts
    /\ now - Node.last_discovery_time > discovery_interval
    /\ Sent(Node, "DISCOVERY_ANNOUNCE") = {}

\* C32: handling a packet whose drone_id is the node's own id changes nothing:
\* the view, the election fields and the timers, last_master_heartbeat_time
\* among them, are as before, and nothing is sent.
C32_OwnPacketIgnored ==
    [][(/\ ev'.op = "recv"
        /\ ev'.packet.drone_id = get_self_id(Net)) =>
          /\ Node' = Fresh(Node)
          /\ Node'.outbox = << >>]_vars

\* a packet under the node's own id has been handled by a node that holds a
\* peer and a master
C32_Witness ==
    /\ ev.op = "recv"
    /\ ev.packet.drone_id = get_self_id(Net)
    /\ ev.packet.action = "HEARTBEAT"
    /\ DOMAIN Net.peers # {}
    /\ Net.master_drone_id # None
    /\ Node.outbox = << >>

\* a HEARTBEAT of peer k that carries the reserved position (0,0,0) together
\* with a battery level and a signal strength
SentinelHeartbeat(k) ==
    [heartbeat(k, "connected", Origin, 80) EXCEPT !.params.signal_strength = 1]

\* C33: a position update with the reserved position (0,0,0) is rejected.  A
\* call of add_or_update_drone that gives it leaves the position of the
\* record as it was, and so does, for every peer record of the view,
\* update_position itself and the handling of a message of that peer whose
\* params carry it.
C33_SentinelRejected ==
    [][(ev'.op = "add_or_update_drone") =>
          /\ (/\ ev'.packet.params.position = Origin
              /\ ev'.packet.drone_id \in PeerRecords(Net)) =>
                 /\ ev'.packet.drone_id \in DOMAIN Net'.peers
                 /\ Net'.peers[ev'.packet.drone_id].position =
                        Net.peers[ev'.packet.drone_id].position
          /\ \A k \in DOMAIN Net'.peers :
                LET old == Net'.peers[k]
                    after == handle_received_packet(
                                 Fresh(Node'), SentinelHeartbeat(k), now,
                                 None, None).drone_network
                IN  /\ update_position(old, Origin, now).position = old.position
                    /\ (k # get_self_id(Net') /\ k \in DOMAIN after.peers) =>
                           after.peers[k].position = old.position]_vars

\* peer 6, recorded with position 1, has been updated by a call that gave
\* the reserved position, and still has position 1
C33_Witness ==
    /\ ev.op = "add_or_update_drone"
    /\ ev.packet.drone_id = 6
    /\ ev.packet.params.position = Origin
    /\ 6 \in DOMAIN Net.peers
    /\ Net.peers[6].position = 1
    /\ Net.peers[6].last_seen = now

(***************************************************************************)
(* SpecBuffer: the packet callback of BroadcastHandler appends to          *)
(* packet_buffer from the receiver's thread while the loop thread is in    *)
(* get_packet; each list operation is one step                             *)
(***************************************************************************)
MaxArrivals == 5

\* got: what get_packet has returned so far, oldest first
\* pc: where the loop thread is in get_packet
BufferEvent(op, n, got, pc) == [op |-> op, who |-> Self0, packet |-> NoPacket, n |-> n, got |-> got, pc |-> pc]

InitBuffer ==
    /\ ctl = [p \in Procs |-> EnhancedStateController(p, Epoch)]
    /\ inbox = [p \in Procs |-> << >>]
    /\ now = Epoch
    /\ ticked = {}
    /\ ev = BufferEvent("init", 0, << >>, "idle")

\* packet_buffer.pop as the list sees it, from the end
get_packet_pop_newest(buffer) ==
    [item |-> buffer[Len(buffer)], rest |-> SubSeq(buffer, 1, Len(buffer) - 1)]

\* packet_buffer.pop(0)
get_packet_pop(buffer) ==
    [item |-> Head(buffer), rest |-> Tail(buffer)]

\* the callback: append (time.monotonic_ns(), data, packet); the n-th
\* arrival is stamped n
Receive ==
    /\ ev.n < MaxArrivals
    /\ \E data \in {"HEARTBEAT", "PING"} :
          inbox' = [inbox EXCEPT ![Self0] =
                       Append(@, [stamp |-> ev.n + 1, data |-> data])]
    /\ ev' = BufferEvent("receive", ev.n + 1, ev.got, ev.pc)
    /\ UNCHANGED <<ctl, now, ticked>>

\* get_packet: the test of len(packet_buffer), and the return of None
GetPacketTest ==
    /\ ev.pc = "idle"
    /\ ev' = IF Len(inbox[Self0]) > 0
             THEN BufferEvent("test", ev.n, ev.got, "pop")
             ELSE BufferEvent("none", ev.n, ev.got, "idle")
    /\ UNCHANGED <<ctl, inbox, now, ticked>>

\* get_packet: return packet_buffer.pop(0); an empty list would raise
\* IndexError and return nothing
GetPacketPop ==
    /\ ev.pc = "pop"
    /\ IF inbox[Self0] = << >>
       THEN /\ ev' = BufferEvent("raise", ev.n, ev.got, "idle")
            /\ UNCHANGED inbox
       ELSE /\ ev' = BufferEvent("return", ev.n,
                         Append(ev.got, get_packet_pop(inbox[Self0]).item),
                         "idle")
            /\ inbox' = [inbox EXCEPT ![Self0] =
                             get_packet_pop(inbox[Self0]).rest]
    /\ UNCHANGED <<ctl, now, ticked>>

NextBuffer == Receive \/ GetPacketTest \/ GetPacketPop

SpecBuffer == InitBuffer /\ [][NextBuffer]_vars

\* C34: however the appends of the callback interleave with the steps of
\* get_packet, what get_packet has returned followed by what is still in the
\* buffer is every datagram received, each once and in the order of arrival;
\* get_packet never raises, and on an empty buffer it returns None at once.
C34_EachOnceInOrder ==
    LET all == ev.got \o inbox[Self0]
    IN  /\ Len(all) = ev.n
        /\ \A i \in 1..Len(all) : all[i].stamp = i
        /\ ev.op # "raise"
        /\ ev.pc = "pop" => inbox[Self0] # << >>
        /\ ev.op = "none" => (inbox[Self0] = << >> /\ ev.pc = "idle")

\* a datagram arrived while the loop thread was between the test and the
\* pop, after two had been returned, and two are waiting
C34_Witness ==
    /\ ev.op = "receive"
    /\ ev.pc = "pop"
    /\ Len(ev.got) = 2
    /\ Len(inbox[Self0]) = 2

\* every object of known_drones has the key it is stored under as drone_id
KeyIsId(dn) == \A k \in KnownIds(dn) : known_drones(dn, k).drone_id = k

C36_SelfAlwaysOnline ==
    [][(/\ ev'.op = "tick"
        /\ SelfRecords(Net) = {get_self_id(Net)}) =>
          /\ get_self_id(Net) \in get_online_ids(AtUpdate, online_timeout, now)
          /\ get_online_drone_count(AtUpdate, online_timeout, now) >= 1
          /\ (get_online_drone_count(AtUpdate, online_timeout, now) = 1) =
                 (OnlinePeers(AtUpdate, now) = {})]_vars

\* C37: at the end of every pass of the control loop the node's own status
\* is MASTER exactly when master_drone_id is the node's own id.
C37_MasterIffOwnId ==
    (ev.op = "tick" /\ SelfRecords(Net) = {get_self_id(Net)}) =>
        ((Net.self_drone.status = "master") =
         (Net.master_drone_id = get_self_id(Net)))

\* an election of the node has been in progress for longer than
\* election_timeout
Overdue == Node.election_in_progress /\ now - Node.election_start_time > election_timeout

C39_EstablishedIffPeers ==
    /\ ev.op = "tick" =>
           Net.network_established =
               (get_online_drone_count(Net, online_timeout, now) > 1)
    /\ (ev.op = "tick" /\ Sent(Node, "NETWORK_STATUS") # {}) =>
           OnlinePeers(Net, now) # {}

\* C40: in every state the election fields agree: while election_in_progress
\* is true has_voted is true and election_votes holds a vote under the node's
\* own id; while it is false election_votes is empty and has_voted is false.
C40_ElectionFieldsAgree ==
    /\ Node.election_in_progress =>
           /\ Node.has_voted
           /\ get_self_id(Net) \in DOMAIN Node.election_votes
    /\ ~Node.election_in_progress =>
           /\ ~Node.has_voted
           /\ DOMAIN Node.election_votes = {}

====
